---- MODULE Spec2Model ----
(***************************************************************************)
(* A model of the finite-state-machine runtime: the pure transition       *)
(* function of StateMachine (src/src/StateMachine.ts) and the Actor that   *)
(* drives it (src/unnamed/part_003, lines 1-214).                          *)
(*                                                                         *)
(* One machine configuration, Config, is explored.  It has state-level and *)
(* global handlers, guarded handlers, a targetless handler, a self         *)
(* transition with and without reenter, assignment and effect actions and  *)
(* an action that throws.  Every public operation of the Actor is one      *)
(* action of the model; the variables call, pre, registered, executed,     *)
(* seen, nesting, sent, delivered, visited, thrown and returned record     *)
(* what the last operation did.  Spec explores callbacks that do nothing   *)
(* and actions that send nothing; SpecCallbacks explores callbacks that    *)
(* throw or change the subscriber set, SpecSelf an action that sends an    *)
(* event through self.                                                     *)
(***************************************************************************)
EXTENDS Integers, Sequences, FiniteSets, TLC

\* ----------------------------------------------------------------- bounds
\* Sends whose resulting count exceeds MaxCount are not explored.
MaxCount == 3
\* Payloads of the ADD event range over 1..MaxBy.
MaxBy == 2
\* Callbacks that may be subscribed are 1..MaxCallbacks.
MaxHandles == 3
MaxCallbacks == 2

\* The guard "belowLimit" is (context) => context.count < Limit.
Limit == 2

\* ------------------------------------------------------ machine definition
StateValues == {"setup", "idle", "active", "paused"}
EventTypes == {"START", "INC", "ADD", "RESTART", "SELF", "PAUSE", "RESUME",
               "FAIL", "RESET", "NOPE"}
Events == [type : EventTypes \ {"ADD"}, by : {1}] \cup [type : {"ADD"}, by : 1..MaxBy]
Callbacks == 1..MaxCallbacks
Statuses == {"active", "done", "error", "stopped"}

\* An optional value that is absent (undefined / null in the source).
Undefined == [defined |-> FALSE]
\* Reading a property of undefined: the call throws instead of returning.
TypeError == [defined |-> FALSE, thrown |-> "TypeError"]
\* What a call yields when a guard's condition throws.
GuardError == [defined |-> FALSE, thrown |-> "Error"]
Thrown(result) == result \in {TypeError, GuardError}
Null == [null |-> TRUE]

\* A TransitionConfig; target = "" stands for an absent target.
T(target, guards, actions, reenter) ==
  [defined |-> TRUE, target |-> target, guards |-> guards, actions |-> actions,
   reenter |-> reenter]

Config ==
  [id |-> "model",
   initial |-> "idle",
   context |-> [count |-> 0, total |-> 0],
   on |-> [INC   |-> T("idle", <<>>, <<"reset">>, FALSE),
           RESET |-> T("idle", <<"hasCount">>, <<"reset", "copyCount">>, FALSE)],
   states |->
     [setup |->
        [entry |-> <<"stamp">>,
         exit  |-> <<>>,
         on    |-> [START |-> T("idle", <<>>, <<>>, FALSE)]],
      idle |->
        [entry |-> <<"logEntryIdle", "increment">>,
         exit  |-> <<"logExitIdle", "copyCount">>,
         on    |-> [START |-> T("active", <<>>, <<"increment", "logReturn", "copyCount">>, FALSE)]],
      active |->
        [entry |-> <<"logEntryActive", "increment">>,
         exit  |-> <<"logExitActive">>,
         on    |-> [INC     |-> T("", <<"belowLimit">>, <<"increment">>, FALSE),
                    ADD     |-> T("", <<"belowLimit", "fits">>, <<"addAmount", "copyCount">>, FALSE),
                    RESTART |-> T("active", <<>>, <<"reset">>, TRUE),
                    SELF    |-> T("active", <<>>, <<"copyCount">>, FALSE),
                    PAUSE   |-> T("paused", <<>>, <<>>, FALSE),
                    RELAY   |-> T("", <<>>, <<"increment", "raisePause", "copyCount">>, FALSE),
                    TRAP    |-> T("paused", <<"hasCount", "explodes">>, <<"copyCount">>, FALSE),
                    FAIL    |-> T("paused", <<>>, <<"increment", "boom", "copyCount">>, FALSE)]],
      paused |->
        [entry |-> <<>>,
         exit  |-> <<>>,
         on    |-> [RESUME |-> T("active", <<"hasCount", "belowLimit">>, <<>>, FALSE),
                    PAUSE  |-> T("", <<>>, <<>>, FALSE),
                    BREAK  |-> T("ghost", <<>>, <<>>, FALSE),
                    FAIL   |-> T("", <<>>, <<"boom">>, FALSE)]]]]

\* guard.condition(context, event)
condition(guard, context, event) ==
  CASE guard = "belowLimit" -> context.count < Limit
    [] guard = "fits"       -> context.count + event.by <= Limit
    [] guard = "hasCount"   -> context.count > 0
    [] guard = "explodes"   -> TRUE

\* Whether guard.condition(context, event) throws instead of returning:
\* "explodes" is () => { throw new Error() }.
conditionThrows(guard, context, event) == guard = "explodes"

\* action.type: the reserved tag marks assignment actions.
ActionType(action) ==
  IF action \in {"increment", "addAmount", "copyCount", "reset"}
  THEN "xstate.assign" ELSE action

NoUpdates == [k \in {} |-> 0]

\* action.exec({context, event, self}): whether it throws, and what it returns.
Exec(action, context, event) ==
  CASE action = "increment" -> [threw |-> FALSE, value |-> ("count" :> context.count + 1)]
    [] action = "addAmount" -> [threw |-> FALSE, value |-> ("count" :> context.count + event.by)]
    [] action = "copyCount" -> [threw |-> FALSE, value |-> ("total" :> context.count)]
    [] action = "reset"     -> [threw |-> FALSE, value |-> ("count" :> 0)]
    [] action = "logReturn" -> [threw |-> FALSE, value |-> ("total" :> MaxCount)]
    [] action = "boom"      -> [threw |-> TRUE, value |-> NoUpdates]
    [] OTHER                -> [threw |-> FALSE, value |-> NoUpdates]

\* What the action assigns on the context object it is handed:
\* "stamp" is ({ context }) => { context.total = context.total + 1 }.
Writes(action, context, event) ==
  IF action = "stamp" THEN ("total" :> context.total + 1) ELSE NoUpdates

\* Mutant: the spread is written the wrong way round, so the old values win.
Spread_ContextWins(context, updates) ==
  [k \in DOMAIN context \cup DOMAIN updates |->
     IF k \in DOMAIN context THEN context[k] ELSE updates[k]]

\* { ...context, ...updates }
Spread(context, updates) ==
  [k \in DOMAIN context \cup DOMAIN updates |->
     IF k \in DOMAIN updates THEN updates[k] ELSE context[k]]

\* ------------------------------------------------------------ StateMachine
\* guards.some(...) calls the conditions in order until one rejects: a
\* condition that throws is reached when every guard before it accepted.
throwingGuards(guards, context, event) ==
  \E i \in DOMAIN guards :
    /\ conditionThrows(guards[i], context, event)
    /\ \A j \in 1..(i - 1) : condition(guards[j], context, event)

\* guards?.some((guard) => !guard.condition(context, event)) ?? false
blockingGuards(guards, context, event) ==
  \E i \in DOMAIN guards : ~condition(guards[i], context, event)

\* Mutant: a state-level handler blocked by its guard falls back to the
\* global handler (state-level || global).
getTransitionConfig_FallsBack(state, event, context) ==
  LET stateNode == Config.states[state]
      own == IF event.type \in DOMAIN stateNode.on
             THEN stateNode.on[event.type] ELSE Undefined
      blocked == own.defined /\ blockingGuards(own.guards, context, event)
  IN  IF own.defined /\ ~blocked THEN own
      ELSE IF event.type \in DOMAIN Config.on
           THEN Config.on[event.type] ELSE Undefined

\* this.config.states[state] is undefined for a state the map does not
\* define, and reading stateNode.on then throws.
getTransitionConfig(state, event, context) ==
  IF state \notin DOMAIN Config.states THEN TypeError
  ELSE
  LET stateNode == Config.states[state]
      trasitionConfig == IF event.type \in DOMAIN stateNode.on
                         THEN stateNode.on[event.type] ELSE Undefined
      guards == IF trasitionConfig.defined THEN trasitionConfig.guards ELSE <<>>
  IN  IF throwingGuards(guards, context, event) THEN GuardError
      ELSE IF blockingGuards(guards, context, event) THEN Undefined
      ELSE IF ~trasitionConfig.defined
           THEN IF event.type \in DOMAIN Config.on
                THEN Config.on[event.type] ELSE Undefined
           ELSE trasitionConfig

getInitialSnapshot(config) ==
  [status |-> "active", context |-> Spread(config.context, NoUpdates),
   value |-> config.initial]

\* currentStateNode?.exit and targetStateNode?.entry: nothing for a state the
\* map does not define.
exitOf(state) ==
  IF state \in DOMAIN Config.states THEN Config.states[state].exit ELSE <<>>
entryOf(state) ==
  IF state \in DOMAIN Config.states THEN Config.states[state].entry ELSE <<>>

\* Mutant: the entry actions are collected before the transition's actions.
collectActions_EntryFirst(transition, currentState, targetState) ==
  LET changed == targetState # currentState \/ transition.reenter
  IN  (IF changed THEN exitOf(currentState) ELSE <<>>)
      \o (IF changed THEN entryOf(targetState) ELSE <<>>)
      \o transition.actions

\* Mutant: the reenter flag is ignored (only a change of state runs exit/entry).
collectActions_NoReenter(transition, currentState, targetState) ==
  LET changed == targetState # currentState
  IN  (IF changed THEN exitOf(currentState) ELSE <<>>)
      \o transition.actions
      \o (IF changed THEN entryOf(targetState) ELSE <<>>)

\* The ordered action list of a matched transition.
collectActions(transition, currentState, targetState) ==
  LET changed == targetState # currentState \/ transition.reenter
  IN  (IF changed THEN exitOf(currentState) ELSE <<>>)
      \o transition.actions
      \o (IF changed THEN entryOf(targetState) ELSE <<>>)

transition(snapshot, event) ==
  LET currentState == snapshot.value
      tr == getTransitionConfig(currentState, event, snapshot.context)
  IN  IF Thrown(tr) THEN tr
      ELSE IF ~tr.defined THEN Undefined
      ELSE LET targetState == IF tr.target # "" THEN tr.target ELSE currentState
           IN  [defined |-> TRUE, value |-> targetState,
                actions |-> collectActions(tr, currentState, targetState)]

\* ------------------------------------------------------------------- Actor
\* this.subscribers is a Set: it keeps insertion order, and forEach walks the
\* entry list as it is when each entry is reached.  A deleted entry is left
\* empty (0) until the running operation returns.
Live(subs) == {subs[i] : i \in DOMAIN subs} \ {0}
size(subs) == Cardinality(Live(subs))
add(subs, cb) == IF cb \in Live(subs) THEN subs ELSE Append(subs, cb)
delete(subs, cb) == [i \in DOMAIN subs |-> IF subs[i] = cb THEN 0 ELSE subs[i]]
Compact(subs) == SelectSeq(subs, LAMBDA cb : cb # 0)

NoDeliveries == [cb \in Callbacks |-> <<>>]

\* What a callback does with the snapshot it is handed: nothing, throw,
\* call the unsubscribe function of the next callback, subscribe the next
\* callback, or send START to the actor.
Kinds == {"plain", "throws", "cancels", "adds", "sends"}
Plain == [cb \in Callbacks |-> "plain"]
nextCallback(cb) == cb + 1

\* The event an action sends through self, if it sends one.
sendsThroughSelf(action) ==
  IF action = "raisePause" THEN [defined |-> TRUE, type |-> "PAUSE", by |-> 1]
  ELSE Undefined

\* The fields of an Actor at the start of an operation, with the record of
\* what the operation does: the actions run (executed), the context each
\* received (seen) and the depth of the send that ran it (nesting), the
\* events sent (sent), the snapshots handed to each callback (delivered), the
\* callbacks the notification passes reached (visited), whether a public
\* snapshot object was created (fresh), the working context of the running
\* executeActions (context), the exception in flight (raised), the path the
\* outermost send took, and what the operation returns (result).
Actor(snap, cache, subs, kinds) ==
  [snapshot |-> snap, lastSnapshot |-> cache, subscribers |-> subs,
   behaviour |-> kinds, delivered |-> NoDeliveries, visited |-> <<>>,
   executed |-> <<>>, seen |-> <<>>, nesting |-> <<>>, sent |-> <<>>,
   depth |-> 0, fresh |-> FALSE, context |-> snap.context, raised |-> FALSE,
   path |-> "", result |-> Null]

\* The public copy getSnapshot builds: { value, context: { ...context }, status }.
copySnapshot(snap) ==
  [value |-> snap.value, context |-> Spread(snap.context, NoUpdates),
   status |-> snap.status]

\* getSnapshot: the cached instance when there is one, else a new copy.
getSnapshot(snap, cache) ==
  IF cache # Null THEN cache ELSE copySnapshot(snap)

\* this.getSnapshot() called on the actor: the instance returned is cached.
cached(a) ==
  [a EXCEPT !.lastSnapshot = getSnapshot(a.snapshot, a.lastSnapshot),
            !.fresh = @ \/ a.lastSnapshot = Null]

\* Mutant: the public snapshot carries this.snapshot.context itself, so a
\* write on it is a write on the actor's context.
mutate_Shared(a, key, v) ==
  [a EXCEPT !.lastSnapshot.context[key] = v, !.snapshot.context[key] = v]

\* snapshot.context[key] = v, done by a caller on the snapshot getSnapshot()
\* returned or a callback was handed: that object is the cached one, and its
\* context is the copy getSnapshot made, an object of its own.
mutate(a, key, v) ==
  [a EXCEPT !.lastSnapshot.context[key] = v]

\* this.lastSnapshot = null
dropped(a) == [a EXCEPT !.lastSnapshot = Null, !.fresh = FALSE]

\* The methods below call one another: send runs actions and notifies, an
\* action or a callback may call send or subscribe again.
RECURSIVE send(_, _)
RECURSIVE subscribe(_, _)
RECURSIVE invoke(_, _, _)
RECURSIVE callSubscriber(_, _, _)
RECURSIVE notify(_)
RECURSIVE handleError(_)
RECURSIVE caught(_)
RECURSIVE process(_, _, _)
RECURSIVE runAction(_, _, _)
RECURSIVE executeActions(_, _, _)

\* callback(snapshot): the call is recorded, then the callback's body runs.
invoke(a, cb, s) ==
  LET called == [a EXCEPT !.delivered[cb] = Append(@, s)]
      kind == a.behaviour[cb]
  IN  CASE kind = "throws" -> [called EXCEPT !.raised = TRUE]
        [] kind = "cancels" /\ nextCallback(cb) \in Callbacks ->
             [called EXCEPT !.subscribers = delete(@, nextCallback(cb))]
        [] kind = "adds" /\ nextCallback(cb) \in Callbacks -> subscribe(called, nextCallback(cb))
        [] kind = "sends" -> send(called, [type |-> "START", by |-> 1])
        [] OTHER -> called

\* Mutant: the callback is called outside any try block.
callSubscriber_NoCatch(a, cb, s) ==
  invoke([a EXCEPT !.visited = Append(@, cb)], cb, s)

\* try { subscriber(snapshot) } catch (error) { console.error(...) }
callSubscriber(a, cb, s) ==
  [invoke([a EXCEPT !.visited = Append(@, cb)], cb, s) EXCEPT !.raised = FALSE]

\* this.subscribers.forEach(...), from entry i on.
RECURSIVE forEachSubscriber(_, _, _)
forEachSubscriber(a, i, s) ==
  IF i > Len(a.subscribers) \/ a.raised THEN a
  ELSE IF a.subscribers[i] = 0 THEN forEachSubscriber(a, i + 1, s)
  ELSE forEachSubscriber(callSubscriber(a, a.subscribers[i], s), i + 1, s)

\* Mutant: only the first registered callback is invoked.
notify_FirstOnly(a) ==
  IF size(a.subscribers) = 0 THEN a
  ELSE LET b == cached(dropped(a))
           first == CHOOSE i \in DOMAIN b.subscribers :
                      /\ b.subscribers[i] # 0
                      /\ \A j \in 1..(i - 1) : b.subscribers[j] = 0
       IN  callSubscriber(b, b.subscribers[first], b.lastSnapshot)

\* notify()
notify(a) ==
  IF size(a.subscribers) = 0 THEN a
  ELSE LET b == cached(dropped(a))
       IN  forEachSubscriber(b, 1, b.lastSnapshot)

\* subscribe(callback): add it, then call it once with getSnapshot().
subscribe(a, cb) ==
  LET b == cached([a EXCEPT !.subscribers = add(@, cb)])
  IN  [invoke(b, cb, b.lastSnapshot) EXCEPT !.raised = FALSE]

\* Mutant: a fault ends the actor with the status done.
handleError_Done(a) ==
  notify([a EXCEPT !.snapshot = [a.snapshot EXCEPT !.status = "done"]])

\* Mutant: a fault also clears the subscriber set.
handleError_Forgets(a) ==
  [notify([a EXCEPT !.snapshot = [a.snapshot EXCEPT !.status = "error"]])
     EXCEPT !.subscribers = <<>>]

\* handleError(error)
handleError(a) ==
  notify([a EXCEPT !.snapshot = [a.snapshot EXCEPT !.status = "error"]])

\* One step of actions.forEach in executeActions.
runAction(action, event, a) ==
  LET ran == [a EXCEPT !.executed = Append(@, action),
                       !.seen = Append(@, a.context),
                       !.nesting = Append(@, a.depth)]
      r == Exec(action, a.context, event)
      raise == sendsThroughSelf(action)
  IN  IF raise.defined
      THEN [send([ran EXCEPT !.depth = @ + 1], [type |-> raise.type, by |-> raise.by])
              EXCEPT !.depth = a.depth, !.context = a.context]
      ELSE IF r.threw THEN [ran EXCEPT !.raised = TRUE]
      ELSE LET written == Spread(a.context, Writes(action, a.context, event))
           IN  IF ActionType(action) = "xstate.assign"
               THEN [ran EXCEPT !.context = Spread(written, r.value)]
               ELSE [ran EXCEPT !.context = written]

\* Mutant: an action that throws does not end the loop.
RECURSIVE forEachAction_KeepsGoing(_, _, _, _)
forEachAction_KeepsGoing(actions, i, event, a) ==
  IF i > Len(actions) THEN a
  ELSE forEachAction_KeepsGoing(actions, i + 1, event, runAction(actions[i], event, a))

RECURSIVE forEachAction(_, _, _, _)
forEachAction(actions, i, event, a) ==
  IF i > Len(actions) \/ a.raised THEN a
  ELSE forEachAction(actions, i + 1, event, runAction(actions[i], event, a))

\* executeActions(actions, event): the working context is a.context.
executeActions(a, actions, event) ==
  forEachAction(actions, 1, event, [a EXCEPT !.context = a.snapshot.context])

\* Mutant: the installed snapshot keeps the value the event was sent in.
nextSnapshot_KeepsValue(snap, result, newContext) ==
  [status |-> snap.status, value |-> snap.value, context |-> newContext]

\* The snapshot send installs after the actions ran.
nextSnapshot(snap, result, newContext) ==
  [status |-> snap.status, value |-> result.value, context |-> newContext]

\* Mutant: the updates made before the fault are kept in this.snapshot.
afterFault_Partial(snap, run) == [snap EXCEPT !.context = run.context]

\* this.snapshot when the catch block of send is entered: executeActions
\* worked on its own copy of the context and the assignment was not reached.
afterFault(snap, run) == snap

\* A send that returns early: nothing ran, nothing changed.
ignored(a, path) == [a EXCEPT !.path = path]

\* Mutant: the catch block passes the exception on to the caller of send.
caught_Rethrows(a) ==
  [handleError([a EXCEPT !.raised = FALSE, !.snapshot = afterFault(a.snapshot, a)])
     EXCEPT !.path = "fault", !.raised = TRUE]

\* The catch block of send.
caught(a) ==
  [handleError([a EXCEPT !.raised = FALSE, !.snapshot = afterFault(a.snapshot, a)])
     EXCEPT !.path = "fault"]

\* Mutant: the subscribers are notified of the target value before the
\* context the actions produced is installed.
process_NotifiesEarly(a, event, result) ==
  LET run == executeActions(a, result.actions, event)
  IN  IF run.raised THEN caught(run)
      ELSE LET early == notify([dropped(run) EXCEPT
                                  !.snapshot = nextSnapshot(run.snapshot, result,
                                                            run.snapshot.context)])
           IN  [early EXCEPT !.snapshot = nextSnapshot(run.snapshot, result, run.context),
                             !.path = "taken"]

\* The try block of send once transition() returned a result.
process(a, event, result) ==
  LET run == executeActions(a, result.actions, event)
  IN  IF run.raised THEN caught(run)
      ELSE LET next == nextSnapshot(run.snapshot, result, run.context)
               told == notify([dropped(run) EXCEPT !.snapshot = next])
           IN  IF told.raised THEN caught(told)
               ELSE [told EXCEPT !.path = "taken"]

\* Mutant: the early return on an undefined result is missing, so reading
\* result.actions throws inside the try block.
send_NoEarlyReturn(a, event) ==
  LET b == [a EXCEPT !.sent = Append(@, event)]
  IN  IF b.snapshot.status # "active" THEN ignored(b, "inactive")
      ELSE LET result == transition(b.snapshot, event)
           IN  IF ~result.defined THEN caught(b)
               ELSE process(b, event, result)

\* Mutant: only a stopped actor ignores events.
send_GatesStoppedOnly(a, event) ==
  LET b == [a EXCEPT !.sent = Append(@, event)]
  IN  IF b.snapshot.status = "stopped" THEN ignored(b, "inactive")
      ELSE LET result == transition(b.snapshot, event)
           IN  IF ~result.defined THEN ignored(b, "nomatch")
               ELSE process(b, event, result)

\* send(event): everything the call does to the actor, and what it ran.
send(a, event) ==
  LET b == [a EXCEPT !.sent = Append(@, event)]
  IN  IF b.snapshot.status # "active" THEN ignored(b, "inactive")
      ELSE LET result == transition(b.snapshot, event)
           IN  IF Thrown(result) THEN caught(b)
               ELSE IF ~result.defined THEN ignored(b, "nomatch")
               ELSE process(b, event, result)

\* Mutant: the dry run executes the actions and installs the result.
callTransition_Executes(a, event) ==
  [send(a, event) EXCEPT !.result = transition(a.snapshot, event)]

\* this.machine.transition(this.snapshot, event), nothing else; outside a
\* try block, so what transition() throws reaches the caller.
callTransition(a, event) ==
  LET result == transition(a.snapshot, event)
  IN  IF Thrown(result) THEN [a EXCEPT !.raised = TRUE]
      ELSE [a EXCEPT !.result = result]

\* Mutant: can sends the event to find out.
can_Sends(a, event) ==
  [send(a, event) EXCEPT !.result = transition(a.snapshot, event).defined]

\* Mutant: can looks for a handler and does not evaluate its guards.
can_IgnoresGuards(a, event) ==
  [a EXCEPT !.result = \/ event.type \in DOMAIN Config.states[a.snapshot.value].on
                       \/ event.type \in DOMAIN Config.on]

\* can(event): !!transition
can(a, event) ==
  LET tried == callTransition(a, event)
  IN  IF tried.raised THEN tried
      ELSE [tried EXCEPT !.result = tried.result.defined]

\* Mutant: the status is replaced without telling the subscribers.
setStatus_Silent(a, status) ==
  IF a.snapshot.status # status
  THEN [dropped(a) EXCEPT !.snapshot = [a.snapshot EXCEPT !.status = status]]
  ELSE a

\* Mutant: the test for the requested status is missing.
setStatus_Unconditional(a, status) ==
  notify([dropped(a) EXCEPT !.snapshot = [a.snapshot EXCEPT !.status = status]])

\* Mutant: a change of status runs the entry actions of the current state.
setStatus_RunsEntry(a, status) ==
  IF a.snapshot.status # status
  THEN LET b == [dropped(a) EXCEPT !.snapshot = [a.snapshot EXCEPT !.status = status]]
       IN  notify(executeActions(b, Config.states[b.snapshot.value].entry,
                                 [type |-> "START", by |-> 1]))
  ELSE a

\* start() / stop(): set the status unless it is already the requested one.
setStatus(a, status) ==
  IF a.snapshot.status # status
  THEN notify([dropped(a) EXCEPT !.snapshot = [a.snapshot EXCEPT !.status = status]])
  ELSE a

\* actions.forEach in the constructor: every entry action is handed
\* this.machine.config.context itself, and what it returns is dropped.
RECURSIVE constructEntry(_, _, _)
constructEntry(actions, i, acc) ==
  IF i > Len(actions) THEN acc
  ELSE constructEntry(actions, i + 1,
         [executed |-> Append(acc.executed, actions[i]),
          seen |-> Append(acc.seen, acc.context),
          context |-> Spread(acc.context,
                             Writes(actions[i], acc.context, [type |-> "$init"]))])

\* Mutant: the state node of the initial state is read with ?. and an
\* unknown initial state runs no entry action.
construct_Lenient(config) ==
  LET entry == constructEntry(entryOf(config.initial), 1,
                              [executed |-> <<>>, seen |-> <<>>,
                               context |-> config.context])
  IN  [raised |-> FALSE, snapshot |-> getInitialSnapshot(config),
       config |-> [config EXCEPT !.context = entry.context],
       executed |-> entry.executed, seen |-> entry.seen]

\* new Actor(machine), machine.config being config: whether the constructor
\* throws, the snapshot it assigned, the actions it ran, and config as the
\* constructor leaves it.  initialState.entry throws when the state map has
\* no node for config.initial.
construct(config) ==
  IF config.initial \notin DOMAIN Config.states
  THEN [raised |-> TRUE, snapshot |-> getInitialSnapshot(config), config |-> config,
        executed |-> <<>>, seen |-> <<>>]
  ELSE LET entry == constructEntry(Config.states[config.initial].entry, 1,
                                   [executed |-> <<>>, seen |-> <<>>,
                                    context |-> config.context])
       IN  [raised |-> FALSE, snapshot |-> getInitialSnapshot(config),
            config |-> [config EXCEPT !.context = entry.context],
            executed |-> entry.executed, seen |-> entry.seen]

\* ------------------------------------------------------------------- state
VARIABLES
  definition,    \* machine.config: its initial state value and its context
  snapshot,      \* this.snapshot
  lastSnapshot,  \* this.lastSnapshot, the cached public snapshot or Null
  subscribers,   \* this.subscribers, in insertion order
  behaviour,     \* what each callback does when it is called
  handles,       \* callbacks for which an unsubscribe function was returned
  tickets,       \* the unsubscribe functions Register returned, in order: the
                 \* callback each closes over and whether it was called
  call,          \* the last operation: its name, its event, the path send took
  pre,           \* this.snapshot when the last operation began
  registered,    \* this.subscribers when the last operation began
  executed,      \* the actions the last operation invoked, in order
  seen,          \* the context each of them received
  nesting,       \* the depth of the send that invoked each of them
  sent,          \* the events the last operation sent, nested sends included
  delivered,     \* the snapshots the last operation handed to each callback
  visited,       \* the callbacks its notification passes called, in order
  thrown,        \* whether the last operation raised to its caller
  returned,      \* what the last getSnapshot(), can() or transition() returned, else Null
  faulted,       \* whether an action threw in a send before the last operation
  fresh,         \* whether the last operation created a new public snapshot object
  stale,         \* whether the cached object was created before the latest change
  folded         \* the pure transition function folded over the events sent so
                 \* far, while the actor stayed active and no action threw

vars == <<definition, snapshot, lastSnapshot, subscribers, behaviour, handles, tickets, call, pre,
          registered, executed, seen, nesting, sent, delivered, visited, thrown,
          returned, faulted, fresh, stale, folded>>

\* The cached object is one handed out before the latest change of the actor
\* when it was kept (neither dropped nor replaced) across a change.
Stale(change, created, cache) ==
  IF cache = Null \/ created THEN FALSE ELSE stale \/ change

\* One event applied by the pure functions alone: transition() for the target
\* and the action list, then every assignment of the list in order.
RECURSIVE applyAll(_, _, _, _)
applyAll(context, actions, i, event) ==
  IF i > Len(actions) THEN [threw |-> FALSE, context |-> context]
  ELSE LET r == Exec(actions[i], context, event)
       IN  IF r.threw THEN [threw |-> TRUE, context |-> context]
           ELSE applyAll(IF ActionType(actions[i]) = "xstate.assign"
                         THEN [k \in DOMAIN context |->
                                 IF k \in DOMAIN r.value THEN r.value[k]
                                 ELSE context[k]]
                         ELSE context,
                         actions, i + 1, event)

foldStep(acc, event) ==
  IF acc = Null THEN Null
  ELSE LET result == transition([value |-> acc.value, context |-> acc.context,
                                 status |-> "active"], event)
       IN  IF ~result.defined THEN acc
           ELSE LET run == applyAll(acc.context, result.actions, 1, event)
                IN  IF run.threw THEN Null
                    ELSE [value |-> result.value, context |-> run.context]

\* faulted after one more operation
Faulted == faulted \/ (call.op = "send" /\ call.path = "fault")

InBounds(context) == context.count <= MaxCount /\ context.total <= MaxCount

\* The state after new Actor(machine) for a machine whose config is config,
\* whatever the callbacks will do.
Constructed(config) ==
  LET made == construct(config)
  IN  /\ definition = made.config
      /\ snapshot = made.snapshot
      /\ lastSnapshot = Null
      /\ subscribers = <<>>
      /\ handles = {}
      /\ tickets = <<>>
      /\ call = [op |-> "new", event |-> Undefined, path |-> ""]
      /\ pre = made.snapshot
      /\ registered = <<>>
      /\ executed = made.executed
      /\ seen = made.seen
      /\ nesting = [i \in DOMAIN made.executed |-> 0]
      /\ sent = <<>>
      /\ delivered = NoDeliveries
      /\ visited = <<>>
      /\ thrown = made.raised
      /\ returned = Null
      /\ faulted = FALSE
      /\ fresh = FALSE
      /\ stale = FALSE
      /\ folded = [value |-> made.snapshot.value, context |-> made.snapshot.context]

\* The configuration written in Config.
Written == [initial |-> Config.initial, context |-> Config.context]

Init == Constructed(Written) /\ behaviour = Plain

\* An actor exists unless the constructor threw.
Usable == ~(call.op = "new" /\ thrown)

\* The actor as an operation finds it.
Begin == Actor(snapshot, lastSnapshot, subscribers, behaviour)

\* An operation returns: the fields it left and the record of what it did.
Returned(r, op, event, change, fold) ==
  /\ Usable
  /\ definition' = definition
  /\ snapshot' = r.snapshot
  /\ lastSnapshot' = r.lastSnapshot
  /\ subscribers' = Compact(r.subscribers)
  /\ handles' = handles \cup Live(r.subscribers)
  /\ call' = [op |-> op, event |-> event, path |-> r.path]
  /\ pre' = snapshot
  /\ registered' = subscribers
  /\ executed' = r.executed
  /\ seen' = r.seen
  /\ nesting' = r.nesting
  /\ sent' = r.sent
  /\ delivered' = r.delivered
  /\ visited' = r.visited
  /\ thrown' = r.raised
  /\ returned' = r.result
  /\ faulted' = Faulted
  /\ fresh' = r.fresh
  /\ stale' = Stale(change, r.fresh, r.lastSnapshot)
  /\ folded' = fold
  /\ behaviour' = behaviour

\* An operation whose unsubscribe function, if it returns one, is not told
\* apart from the others of its callback.
Return(r, op, event, change, fold) ==
  /\ Returned(r, op, event, change, fold)
  /\ tickets' = tickets

Send(event) ==
  LET r == send(Begin, event)
  IN  /\ InBounds(r.snapshot.context)
      /\ Return(r, "send", event, r.path \in {"taken", "fault"},
                IF snapshot.status = "active" THEN foldStep(folded, event) ELSE Null)

Start ==
  LET r == setStatus(Begin, "active")
  IN  Return(r, "start", Undefined, r.snapshot.status # snapshot.status,
             IF r.snapshot.status = "active" THEN folded ELSE Null)

Stop ==
  LET r == setStatus(Begin, "stopped")
  IN  Return(r, "stop", Undefined, r.snapshot.status # snapshot.status,
             IF r.snapshot.status = "active" THEN folded ELSE Null)

GetSnapshot ==
  LET s == cached(Begin)
      r == [s EXCEPT !.result = s.lastSnapshot]
  IN  Return(r, "getSnapshot", Undefined, FALSE, folded)

Subscribe(cb) ==
  LET r == subscribe(Begin, cb)
  IN  Return(r, "subscribe", Undefined, FALSE, folded)

\* The function subscribe returned: this.subscribers.delete(callback).
Unsubscribe(cb) ==
  LET r == [Begin EXCEPT !.subscribers = delete(@, cb)]
  IN  /\ cb \in handles
      /\ Return(r, "unsubscribe", Undefined, FALSE, folded)

\* actor.can(event)
Can(event) ==
  LET r == can(Begin, event)
  IN  Return(r, "can", event, FALSE, folded)

\* machine.transition(snapshot, event), called on the actor's snapshot.
Transition(event) ==
  LET r == callTransition(Begin, event)
  IN  Return(r, "transition", event, FALSE, folded)

Next ==
  \/ \E event \in Events : Send(event)
  \/ Start
  \/ Stop
  \/ GetSnapshot
  \/ \E cb \in Callbacks : Subscribe(cb)
  \/ \E cb \in Callbacks : Unsubscribe(cb)

Spec == Init /\ [][Next]_vars

\* Callbacks that throw, cancel or subscribe another callback: the first
\* callback does any of it, the others at most throw.
Behaviours ==
  {b \in [Callbacks -> Kinds] :
     /\ b[1] # "sends"
     /\ \A cb \in Callbacks \ {1} : b[cb] \in {"plain", "throws"}}

InitCallbacks == Constructed(Written) /\ behaviour \in Behaviours

CallbackEvents == [type : {"START", "RESTART", "FAIL", "TRAP"}, by : {1}]

NextCallbacks ==
  \/ \E event \in CallbackEvents : Send(event)
  \/ Start
  \/ Stop
  \/ \E cb \in Callbacks : Subscribe(cb)
  \/ \E cb \in Callbacks : Unsubscribe(cb)

SpecCallbacks == InitCallbacks /\ [][NextCallbacks]_vars

\* new Actor(machine) once more: the model goes on with the new actor.
New ==
  LET made == construct(definition)
  IN  /\ InBounds(made.config.context)
      /\ definition' = made.config
      /\ snapshot' = made.snapshot
      /\ lastSnapshot' = Null
      /\ subscribers' = <<>>
      /\ handles' = {}
      /\ tickets' = <<>>
      /\ call' = [op |-> "new", event |-> Undefined, path |-> ""]
      /\ pre' = made.snapshot
      /\ registered' = <<>>
      /\ executed' = made.executed
      /\ seen' = made.seen
      /\ nesting' = [i \in DOMAIN made.executed |-> 0]
      /\ sent' = <<>>
      /\ delivered' = NoDeliveries
      /\ visited' = <<>>
      /\ thrown' = made.raised
      /\ returned' = Null
      /\ faulted' = FALSE
      /\ fresh' = FALSE
      /\ stale' = FALSE
      /\ folded' = [value |-> made.snapshot.value, context |-> made.snapshot.context]
      /\ behaviour' = behaviour

\* Machines whose initial state has an entry action that writes to the
\* context it is handed, or is not a key of the state map, and a handler
\* whose target is no key of it.
Definitions == [initial : {"idle", "setup", "ghost"}, context : {Config.context}]

InitDefinition ==
  \E config \in Definitions : Constructed(config) /\ behaviour = Plain

DefinitionEvents == [type : {"START", "PAUSE", "BREAK"}, by : {1}]

NextDefinition ==
  \/ \E event \in DefinitionEvents : Send(event)
  \/ New
  \/ GetSnapshot
  \/ \E cb \in Callbacks : Subscribe(cb)

SpecDefinition == InitDefinition /\ [][NextDefinition]_vars

\* A holder of the public snapshot writes on its context between operations.
Mutate(key, v) ==
  LET r == mutate(Begin, key, v)
  IN  /\ lastSnapshot # Null
      /\ lastSnapshot.context[key] # v
      /\ Return(r, "mutate", Undefined, FALSE, folded)

MutateEvents == [type : {"START", "INC", "PAUSE", "RESUME", "RESET"}, by : {1}]

NextMutate ==
  \/ \E event \in MutateEvents : Send(event)
  \/ GetSnapshot
  \/ \E cb \in Callbacks : Subscribe(cb)
  \/ \E key \in DOMAIN Config.context : \E v \in {0, MaxCount} : Mutate(key, v)

SpecMutate == Init /\ [][NextMutate]_vars

\* A callback that sends an event to the actor it listens to: the first
\* callback may, the others do nothing.
Reentrant ==
  {b \in [Callbacks -> {"plain", "sends"}] :
     \A cb \in Callbacks \ {1} : b[cb] = "plain"}

InitReentrant == Constructed(Written) /\ behaviour \in Reentrant

ReentrantEvents == [type : {"START", "INC", "RESET"}, by : {1}]

NextReentrant ==
  \/ \E event \in ReentrantEvents : Send(event)
  \/ Start
  \/ Stop
  \/ \E cb \in Callbacks : Subscribe(cb)
  \/ \E cb \in Callbacks : Unsubscribe(cb)

SpecReentrant == InitReentrant /\ [][NextReentrant]_vars

\* subscribe(callback), the function it returns being kept apart from every
\* other one, of the same callback too.
Register(cb) ==
  LET r == subscribe(Begin, cb)
  IN  /\ Len(tickets) < MaxHandles
      /\ Returned(r, "subscribe", Undefined, FALSE, folded)
      /\ tickets' = Append(tickets, [cb |-> cb, called |-> FALSE])

\* The n-th of these functions is called, for the first time or again:
\* this.subscribers.delete(callback) with the callback it closes over.
Cancel(n) ==
  LET r == [Begin EXCEPT !.subscribers = delete(@, tickets[n].cb)]
  IN  /\ n \in DOMAIN tickets
      /\ Returned(r, "unsubscribe", Undefined, FALSE, folded)
      /\ tickets' = [tickets EXCEPT ![n].called = TRUE]

HandleEvents == [type : {"START", "RESTART"}, by : {1}]

NextHandles ==
  \/ \E event \in HandleEvents : Send(event)
  \/ \E cb \in Callbacks : Register(cb)
  \/ \E n \in 1..MaxHandles : Cancel(n)

SpecHandles == Init /\ [][NextHandles]_vars

\* The dry runs, can() and transition(), between sends.
NextDryRun ==
  \/ \E event \in Events : Send(event)
  \/ \E event \in Events : Can(event)
  \/ \E event \in Events : Transition(event)
  \/ GetSnapshot
  \/ \E cb \in Callbacks : Subscribe(cb)

SpecDryRun == Init /\ [][NextDryRun]_vars

\* An action that sends an event through self while its own event is being
\* processed.
SelfEvents == [type : {"START", "RESTART", "RELAY", "PAUSE", "RESUME"}, by : {1}]

NextSelf ==
  \/ \E event \in SelfEvents : Send(event)
  \/ GetSnapshot
  \/ \E cb \in Callbacks : Subscribe(cb)

SpecSelf == Init /\ [][NextSelf]_vars

TypeOK ==
  /\ snapshot.value \in StateValues
  /\ snapshot.status \in Statuses
  /\ InBounds(snapshot.context)
  /\ Live(subscribers) \subseteq Callbacks
  /\ 0 \notin Live(subscribers)

\* ------------------------------------------------------------------ claims
\* The handler the specification's shadowing rule selects for (state, event
\* type): the state's own when it defines one, else the global one.
handlerFor(state, type) ==
  IF type \in DOMAIN Config.states[state].on THEN Config.states[state].on[type]
  ELSE IF type \in DOMAIN Config.on THEN Config.on[type]
  ELSE Undefined

\* Whether one of the handler's guards rejects (context, event).
rejects(handler, context, event) ==
  \E i \in DOMAIN handler.guards : ~condition(handler.guards[i], context, event)

targetOf(handler, state) == IF handler.target = "" THEN state ELSE handler.target

IsPrefix(p, q) == Len(p) <= Len(q) /\ SubSeq(q, 1, Len(p)) = p

\* The context after the first n of the actions, each assignment action's
\* update merged key by key into what the earlier ones left.
RECURSIVE Applied(_, _, _, _)
Applied(context, actions, n, event) ==
  IF n = 0 THEN context
  ELSE LET before == Applied(context, actions, n - 1, event)
           update == Exec(actions[n], before, event).value
       IN  IF ActionType(actions[n]) = "xstate.assign"
           THEN [k \in DOMAIN before |->
                   IF k \in DOMAIN update THEN update[k] ELSE before[k]]
           ELSE before

SendTaken == call.op = "send" /\ call.path = "taken"
SendFault == call.op = "send" /\ call.path = "fault"

\* C1: a send that takes a transition to a different state executes exactly
\* the exit actions of the old state, then the transition's actions, then the
\* entry actions of the new state, each group in declaration order.
C1_ExitTransitionEntry ==
  (SendTaken /\ snapshot.value # pre.value) =>
    executed = Config.states[pre.value].exit
               \o handlerFor(pre.value, call.event.type).actions
               \o Config.states[snapshot.value].entry

C1_Witness ==
  /\ SendTaken
  /\ call.event.type = "START"
  /\ pre.value = "idle"
  /\ snapshot.value = "active"
  /\ executed = <<"logExitIdle", "copyCount", "increment", "logReturn",
                  "copyCount", "logEntryActive", "increment">>

\* C2: when a guard of the handler selected for (current state, event type),
\* state-level or global, rejects (context, event), send changes nothing and
\* runs no action.
C2_GuardExclusivity ==
  (/\ call.op = "send"
   /\ pre.status = "active"
   /\ handlerFor(pre.value, call.event.type).defined
   /\ rejects(handlerFor(pre.value, call.event.type), pre.context, call.event))
  => (snapshot = pre /\ executed = <<>>)

\* C3: lookup uses the state's own handler whenever the state defines one and
\* the global handler only when it defines none; a state-level handler blocked
\* by a guard never falls back to the global handler of the same event type.
C3_StateShadowsGlobal ==
  (call.op = "send" /\ pre.status = "active") =>
    LET own == call.event.type \in DOMAIN Config.states[pre.value].on
        h == handlerFor(pre.value, call.event.type)
        expected == (IF targetOf(h, pre.value) # pre.value \/ h.reenter
                     THEN Config.states[pre.value].exit ELSE <<>>)
                    \o h.actions
                    \o (IF targetOf(h, pre.value) # pre.value \/ h.reenter
                        THEN Config.states[targetOf(h, pre.value)].entry ELSE <<>>)
    IN  /\ (own /\ rejects(h, pre.context, call.event)) =>
             (call.path = "nomatch" /\ executed = <<>> /\ snapshot = pre)
        /\ (own /\ ~rejects(h, pre.context, call.event)) =>
             /\ call.path \in {"taken", "fault"}
             /\ IsPrefix(executed, expected)
             /\ call.path = "taken" =>
                  (executed = expected /\ snapshot.value = targetOf(h, pre.value))
        /\ (~own /\ h.defined) =>
             /\ call.path \in {"taken", "fault"}
             /\ IsPrefix(executed, expected)
             /\ call.path = "taken" =>
                  (executed = expected /\ snapshot.value = targetOf(h, pre.value))
        /\ (~own /\ ~h.defined) => call.path = "nomatch"

\* The state-level INC handler of "active" is blocked while a global INC
\* handler exists.
C3_Witness ==
  /\ call.op = "send"
  /\ pre.status = "active"
  /\ pre.value = "active"
  /\ call.event.type = "INC"
  /\ pre.context.count >= Limit
  /\ "INC" \in DOMAIN Config.on
  /\ call.path = "nomatch"

\* C4: a taken transition whose target is absent or the current state runs
\* only its own actions when reenter is unset, and exit, transition, entry of
\* the current state, in that order, when reenter is set.
C4_SelfLoopAndReenter ==
  (SendTaken /\ targetOf(handlerFor(pre.value, call.event.type), pre.value) = pre.value) =>
    LET h == handlerFor(pre.value, call.event.type)
    IN  /\ snapshot.value = pre.value
        /\ ~h.reenter => executed = h.actions
        /\ h.reenter => executed = Config.states[pre.value].exit \o h.actions
                                   \o Config.states[pre.value].entry

C4_Witness ==
  /\ SendTaken
  /\ call.event.type = "RESTART"
  /\ pre.value = "active"
  /\ executed = <<"logExitActive", "reset", "logEntryActive", "increment">>

\* C5: on an active actor a send for which neither the current state nor the
\* machine defines a handler changes nothing, runs no action and leaves the
\* status active.
C5_NoMatchIsNoOp ==
  (/\ call.op = "send"
   /\ pre.status = "active"
   /\ call.event.type \notin DOMAIN Config.states[pre.value].on
   /\ call.event.type \notin DOMAIN Config.on)
  => (snapshot = pre /\ executed = <<>> /\ snapshot.status = "active")

C5_Witness ==
  /\ call.op = "send"
  /\ pre.status = "active"
  /\ call.event.type = "NOPE"
  /\ pre.value = "active"
  /\ pre.context.count > 0

\* C6: while the status is stopped or error, send leaves value and context
\* unchanged and runs no action, also for an event whose transition is
\* defined and whose guards pass.
C6_StatusGating ==
  (call.op = "send" /\ pre.status \in {"stopped", "error"}) =>
    /\ snapshot.value = pre.value
    /\ snapshot.context = pre.context
    /\ executed = <<>>

\* An errored actor is sent an event whose handler is defined and unguarded.
C6_Witness ==
  /\ call.op = "send"
  /\ pre.status = "error"
  /\ pre.value = "active"
  /\ call.event.type = "RESTART"
  /\ ~rejects(handlerFor(pre.value, call.event.type), pre.context, call.event)

\* C7: during a send each assignment action's update is merged key by key
\* into the working context, every action receives the context holding the
\* updates of all earlier assignment actions, and the context after the send
\* is the result of all updates in list order.  For START from idle: count
\* grows by 2 (transition and entry increment) and total is the count the
\* first increment produced; the value an effect action returns is dropped.
C7_AssignmentMerge ==
  /\ (call.op = "send" /\ call.path \in {"taken", "fault"}) =>
       \A i \in 1..Len(executed) :
         seen[i] = Applied(pre.context, executed, i - 1, call.event)
  /\ SendTaken =>
       snapshot.context = Applied(pre.context, executed, Len(executed), call.event)
  /\ (SendTaken /\ pre.value = "idle" /\ call.event.type = "START") =>
       /\ snapshot.context.count = pre.context.count + 2
       /\ snapshot.context.total = pre.context.count + 1

C7_Witness ==
  /\ SendTaken
  /\ pre.value = "idle"
  /\ call.event.type = "START"
  /\ pre.context.count = 1
  /\ snapshot.context = [count |-> 3, total |-> 2]

\* C8: when an action throws during a send on an active actor the status
\* becomes error, every registered subscriber is handed one snapshot with
\* status error, the event's actions are not run again, and every later send
\* runs no action.
C8_FaultIsFinal ==
  /\ SendFault =>
       /\ snapshot.status = "error"
       /\ \A cb \in Live(subscribers) :
            delivered[cb] = <<[value |-> pre.value, context |-> snapshot.context,
                               status |-> "error"]>>
  /\ (faulted /\ call.op = "send") => executed = <<>>

C10_SnapshotNeverStale ==
  call.op = "getSnapshot" =>
    /\ returned.value = snapshot.value
    /\ returned.context = snapshot.context
    /\ returned.status = snapshot.status

\* C11: the instance getSnapshot() returns is the cached one, so that a second
\* call with no state-changing operation between returns the identical
\* instance; and after a send that takes a transition, a start or stop that
\* changes the status, or a fault, the instance returned is never one that was
\* created before that change.
C11_SnapshotIdentity ==
  call.op = "getSnapshot" =>
    /\ returned = lastSnapshot
    /\ ~stale

\* C12: the only status changes are active to stopped by stop(), active to
\* error by a fault during send, and stopped to active by start(); start() and
\* stop() on an actor in error leave the status error.
C12_StatusChanges ==
  /\ snapshot.status # pre.status =>
       \/ call.op = "stop" /\ pre.status = "active" /\ snapshot.status = "stopped"
       \/ SendFault /\ pre.status = "active" /\ snapshot.status = "error"
       \/ call.op = "start" /\ pre.status = "stopped" /\ snapshot.status = "active"
  /\ (call.op \in {"start", "stop"} /\ pre.status = "error") =>
       snapshot.status = "error"

\* C13: once an action threw, no later send, start, stop, subscribe or
\* getSnapshot changes value or context, and every getSnapshot() from the
\* fault on reports the status error.
C13_ErrorIsTerminal ==
  /\ faulted =>
       /\ snapshot.value = pre.value
       /\ snapshot.context = pre.context
  /\ (Faulted /\ call.op = "getSnapshot") => returned.status = "error"

\* C14: while the actor stays active and no action throws, value and context
\* after the sends e1..en are the pure transition function and the execution
\* of its action list folded over e1..en from the initial snapshot, each event
\* applied exactly once.
C14_SendsFold ==
  folded # Null =>
    /\ snapshot.value = folded.value
    /\ snapshot.context = folded.context

\* START, RESTART and INC were folded: the third send raised the count the
\* first two left.
C14_Witness ==
  /\ folded # Null
  /\ SendTaken
  /\ call.event.type = "INC"
  /\ pre.value = "active"
  /\ pre.context.count > 0
  /\ snapshot.context.count = pre.context.count + 1

\* C16: every snapshot handed to a subscriber during a send that takes a
\* transition carries the target value together with the context after all
\* the actions of that event; a snapshot handed out after a fault carries the
\* value and context from before the event, never a partial context.
C16_DeliveredSettled ==
  call.op = "send" =>
    \A cb \in Callbacks : \A i \in 1..Len(delivered[cb]) :
      LET d == delivered[cb][i]
          h == handlerFor(pre.value, call.event.type)
      IN  /\ call.path \in {"taken", "fault"}
          /\ SendTaken =>
               /\ d.value = targetOf(h, pre.value)
               /\ d.context = Applied(pre.context, executed, Len(executed), call.event)
          /\ SendFault =>
               /\ d.value = pre.value
               /\ d.context = pre.context

\* A subscriber is handed the snapshot of START from idle: value and context
\* both differ from what they were before the event.
C16_Witness ==
  /\ SendTaken
  /\ call.event.type = "START"
  /\ pre.value = "idle"
  /\ 1 \in Live(subscribers)
  /\ delivered[1] = <<[value |-> "active",
                       context |-> [count |-> pre.context.count + 2,
                                    total |-> pre.context.count + 1],
                       status |-> "active"]>>

\* C17: subscribe(callback) invokes the callback exactly once, with the
\* actor's current value, context and status, and invokes no other callback;
\* a callback that is not registered (never subscribed, or unsubscribed) is
\* invoked by no send, start or stop.
C17_SubscribeDeliversCurrent ==
  /\ call.op = "subscribe" =>
       \E cb \in Live(subscribers) :
         /\ Len(delivered[cb]) = 1
         /\ delivered[cb][1].value = snapshot.value
         /\ delivered[cb][1].context = snapshot.context
         /\ delivered[cb][1].status = snapshot.status
         /\ \A other \in Callbacks \ {cb} : delivered[other] = <<>>
  /\ call.op \in {"send", "start", "stop"} =>
       \A cb \in Callbacks \ Live(subscribers) : delivered[cb] = <<>>

\* C20: a send on an active actor that takes a transition invokes every
\* registered subscriber exactly once, and no other callback, with a snapshot
\* equal to the value, context and status the send installed.
C20_OneDeliveryPerSend ==
  SendTaken =>
    \A cb \in Callbacks :
      delivered[cb] = IF cb \in Live(subscribers) THEN <<snapshot>> ELSE <<>>

\* Two subscribers are each handed the snapshot a send installed; one
\* unsubscribed callback would be handed nothing.
C20_Witness ==
  /\ SendTaken
  /\ Live(subscribers) = Callbacks
  /\ snapshot # pre
  /\ \A cb \in Callbacks : delivered[cb] = <<snapshot>>

\* The events of a sequence processed one after the other, each to completion.
RECURSIVE foldAll(_, _, _)
foldAll(acc, events, i) ==
  IF i > Len(events) THEN acc
  ELSE foldAll(foldStep(acc, events[i]), events, i + 1)

\* C15: also when an action sends an event through self while its own event
\* is being processed, no action of the later event runs between two actions
\* of the earlier event, and value and context after the outermost send are
\* those of processing the events sent one after the other, each to
\* completion.
C15_NoInterleaving ==
  (call.op = "send" /\ pre.status = "active") =>
    /\ \A i, j, k \in DOMAIN executed :
         (i < j /\ j < k /\ nesting[i] = nesting[k]) => nesting[j] <= nesting[i]
    /\ LET inOrder == foldAll([value |-> pre.value, context |-> pre.context], sent, 1)
       IN  inOrder # Null =>
             /\ snapshot.value = inOrder.value
             /\ snapshot.context = inOrder.context

\* The last send, start or stop applied to the actor it found, had every
\* callback that throws done nothing instead.
Quiet ==
  [cb \in Callbacks |-> IF behaviour[cb] = "throws" THEN "plain" ELSE behaviour[cb]]

quietly ==
  LET a == Actor(pre, Null, registered, Quiet)
  IN  CASE call.op = "send"  -> send(a, call.event)
        [] call.op = "start" -> setStatus(a, "active")
        [] call.op = "stop"  -> setStatus(a, "stopped")

\* C18: when a callback throws during the notification pass of a send, start
\* or stop, the call does not raise to its caller, the pass calls the same
\* callbacks with the same snapshots, and value, context and status are what
\* they would be had the callback not thrown; the status does not become
\* error.
C18_SubscriberFaultIsolated ==
  call.op \in {"send", "start", "stop"} =>
    /\ ~thrown
    /\ snapshot = quietly.snapshot
    /\ visited = quietly.visited
    /\ delivered = quietly.delivered
    /\ call.path = quietly.path

\* The first of two subscribers throws during the pass of a taken send.
C18_Witness ==
  /\ SendTaken
  /\ Len(visited) = 2
  /\ behaviour[visited[1]] = "throws"
  /\ behaviour[visited[2]] = "plain"
  /\ delivered[visited[2]] = <<snapshot>>
  /\ snapshot.status = "active"
  /\ snapshot # pre

\* C19: a notification pass calls every callback that was registered when
\* the operation began, and calls no callback more than once, also when a
\* callback subscribes or unsubscribes a callback during the pass.
C19_StablePass ==
  (call.op \in {"send", "start", "stop"} /\ visited # <<>>) =>
    /\ \A cb \in Live(registered) : \E i \in DOMAIN visited : visited[i] = cb
    /\ \A i, j \in DOMAIN visited : visited[i] = visited[j] => i = j

\* C21: stop() on an active actor and start() on a stopped actor change only
\* the status: value, context and the subscriber set stay, no action is
\* executed, and every registered subscriber is called exactly once, with the
\* snapshot carrying the new status.
C21_StatusOnly ==
  (\/ call.op = "stop" /\ pre.status = "active"
   \/ call.op = "start" /\ pre.status = "stopped") =>
    /\ snapshot = [pre EXCEPT !.status = IF call.op = "stop" THEN "stopped" ELSE "active"]
    /\ subscribers = registered
    /\ executed = <<>>
    /\ \A cb \in Callbacks :
         delivered[cb] = IF cb \in Live(registered) THEN <<snapshot>> ELSE <<>>

\* A stopped actor in state active with two subscribers is started.
C21_Witness ==
  /\ call.op = "start"
  /\ pre.status = "stopped"
  /\ pre.value = "active"
  /\ Live(subscribers) = Callbacks
  /\ snapshot.status = "active"

\* C22: start() on an active actor and stop() on a stopped actor change
\* nothing: status, value and context stay, no subscriber is called, and the
\* cached snapshot stays in place, so getSnapshot() returns the instance it
\* returned before the call.
C22_RepeatedStatusIsNoOp ==
  [][(\/ call'.op = "start" /\ snapshot.status = "active"
      \/ call'.op = "stop" /\ snapshot.status = "stopped") =>
       /\ snapshot' = snapshot
       /\ lastSnapshot' = lastSnapshot
       /\ subscribers' = subscribers
       /\ delivered' = NoDeliveries
       /\ executed' = <<>>
       /\ ~fresh']_vars

\* stop() on a stopped actor that has a subscriber and a cached snapshot.
C22_Witness ==
  /\ call.op = "stop"
  /\ pre.status = "stopped"
  /\ lastSnapshot # Null
  /\ subscribers # <<>>

\* C28: the entry actions of the initial state are executed once, in
\* declaration order, by the constructor, before any event is sent; start()
\* and stop(), also stop() followed by start(), execute no action.
C28_InitialEntryOnce ==
  /\ call.op = "new" =>
       /\ executed = Config.states[Config.initial].entry
       /\ sent = <<>>
  /\ call.op \in {"start", "stop"} => executed = <<>>

\* An actor still in its initial state is started again after a stop.
C28_Witness ==
  /\ call.op = "start"
  /\ pre.status = "stopped"
  /\ snapshot.status = "active"
  /\ snapshot.value = Config.initial
  /\ Config.states[Config.initial].entry # <<>>

\* C23: can(event) executes no action, calls no subscriber and leaves value,
\* context, status, the subscriber set and the cached snapshot as they were;
\* it returns true exactly when transition() yields an outcome for the
\* current snapshot and the event.
C23_CanIsDryRun ==
  [][call'.op = "can" =>
       /\ snapshot' = snapshot
       /\ lastSnapshot' = lastSnapshot
       /\ subscribers' = subscribers
       /\ executed' = <<>>
       /\ delivered' = NoDeliveries
       /\ ~fresh'
       /\ returned' = (transition(snapshot, call'.event) # Undefined)]_vars

\* can(START) is true in idle, where START would run seven actions, while a
\* snapshot is cached and a callback is subscribed.
C23_Witness ==
  /\ call.op = "can"
  /\ call.event.type = "START"
  /\ snapshot.value = "idle"
  /\ returned = TRUE
  /\ lastSnapshot # Null
  /\ subscribers # <<>>

\* What can(event) returns on the actor the last operation found.
couldBefore ==
  can(Actor(pre, Null, registered, behaviour), call.event).result

C25_TransitionIsPure ==
  [][call'.op = "transition" =>
       /\ snapshot' = snapshot
       /\ lastSnapshot' = lastSnapshot
       /\ subscribers' = subscribers
       /\ definition' = definition
       /\ executed' = <<>>
       /\ delivered' = NoDeliveries
       /\ (call.op = "transition" /\ call.event = call'.event) => returned' = returned]_vars

\* transition() returned the seven actions of START from idle.
C25_Witness ==
  /\ call.op = "transition"
  /\ call.event.type = "START"
  /\ snapshot.value = "idle"
  /\ returned # Undefined
  /\ returned.value = "active"
  /\ Len(returned.actions) = 7

\* C26: when no handler is defined for (state, event type), or a guard of the
\* handler selected for it rejects, transition() returns the no-transition
\* sentinel; for a matched handler without target, reenter and actions it
\* returns an outcome with the current state and an empty action list; the
\* two results differ.
C26_SentinelDistinct ==
  call.op = "transition" =>
    LET h == handlerFor(pre.value, call.event.type)
    IN  /\ (~h.defined \/ rejects(h, pre.context, call.event)) => returned = Undefined
        /\ (/\ h.defined
            /\ ~rejects(h, pre.context, call.event)
            /\ h.target = "" /\ ~h.reenter /\ h.actions = <<>>) =>
             /\ returned = [defined |-> TRUE, value |-> pre.value, actions |-> <<>>]
             /\ returned # Undefined

\* C27: actors of one machine are isolated through the machine: whatever the
\* actors do, their construction included, the context of the definition
\* stays the initial context as written, and every actor constructed starts
\* from it.
C27_DefinitionUntouched ==
  /\ definition.context = Config.context
  /\ Usable /\ call.op = "new" => snapshot.context = Config.context

C30_ValueIsAState ==
  Usable => snapshot.value \in DOMAIN Config.states

\* C32: guards are evaluated against the context the actor has when the
\* event is sent: a send takes a transition only when every guard of the
\* handler selected for (current state, event type) accepts that context.
C32_TakenOnlyWhenGuardsAccept ==
  SendTaken =>
    ~rejects(handlerFor(pre.value, call.event.type), pre.context, call.event)

\* C33: the status of the actor, of the cached snapshot and of every snapshot
\* handed to a callback is active, stopped or error, never done.
C33_NeverDone ==
  LET Reached == {"active", "stopped", "error"}
  IN  /\ snapshot.status \in Reached
      /\ lastSnapshot # Null => lastSnapshot.status \in Reached
      /\ \A cb \in Callbacks : \A i \in DOMAIN delivered[cb] :
            delivered[cb][i].status \in Reached

\* An action threw, and stop() then took the actor from there to stopped
\* while a callback was listening.
C33_Witness ==
  /\ faulted
  /\ call.op = "stop"
  /\ pre.status # "stopped"
  /\ snapshot.status = "stopped"
  /\ \E cb \in Live(subscribers) : delivered[cb] # <<>>

\* C34: send, start and stop, a send in which an action throws included,
\* leave the subscriber set as it is, and every change they make is handed
\* once to every callback of the set.
C34_SubscribersKept ==
  [][call'.op \in {"send", "start", "stop"} =>
       /\ subscribers' = subscribers
       /\ (call'.path \in {"taken", "fault"} \/ snapshot' # snapshot) =>
            \A cb \in Live(subscribers) : delivered'[cb] = <<snapshot'>>]_vars

\* A callback registered before an action threw is handed the snapshot of a
\* later send that took a transition.
C34_Witness ==
  /\ faulted
  /\ SendTaken
  /\ registered = subscribers
  /\ Live(subscribers) # {}
  /\ \A cb \in Live(subscribers) : delivered[cb] = <<snapshot>>

\* C35: when an action throws during a send, the actions listed after it are
\* not executed and the value stays the state the event was sent in.
C35_FaultStopsTheList ==
  SendFault =>
    LET planned == transition(pre, call.event).actions
        n == Len(executed)
    IN  /\ n >= 1
        /\ IsPrefix(executed, planned)
        /\ Exec(executed[n], seen[n], call.event).threw
        /\ \A i \in 1..(n - 1) : ~Exec(executed[i], seen[i], call.event).threw
        /\ snapshot.value = pre.value

\* boom threw in FAIL from active to paused: the exit action of active had
\* run, copyCount was left out and the value is still active.
C35_Witness ==
  /\ SendFault
  /\ call.event.type = "FAIL"
  /\ transition(pre, call.event).value = "paused"
  /\ transition(pre, call.event).actions
       = <<"logExitActive", "increment", "boom", "copyCount">>
  /\ executed[1] = "logExitActive"
  /\ Len(executed) = 3
  /\ snapshot.value = "active"

\* C40: a send to an actor that is not active, a send of an event for which
\* no handler is selected, and a send in which a guard of the selected
\* handler rejects call no callback and leave the cached snapshot in place.
C40_NoOpKeepsCache ==
  [][(/\ call'.op = "send"
      /\ LET handler == handlerFor(snapshot.value, call'.event.type)
         IN  \/ snapshot.status # "active"
             \/ ~handler.defined
             \/ handler.defined /\ rejects(handler, snapshot.context, call'.event))
     => /\ lastSnapshot' = lastSnapshot
        /\ delivered' = NoDeliveries]_vars

\* C38: the entry actions of the initial state act on the new actor as entry
\* actions of a transition do: the update each assignment action among them
\* returns is merged into the context of the actor's first snapshot.
C38_InitialEntryAssigns ==
  (call.op = "new" /\ Usable /\ executed # <<>>) =>
    snapshot.context = Applied(seen[1], executed, Len(executed), [type |-> "$init"])

\* C39: send returns normally whatever throws while it runs: a guard, an
\* action, or a callback, the callbacks called for the fault included.
C39_SendNeverRaises ==
  call.op = "send" => ~thrown

\* The guard of TRAP threw, the fault was handed to a callback that threw as
\* well, and send returned.
C39_Witness ==
  /\ SendFault
  /\ call.event.type = "TRAP"
  /\ executed = <<>>
  /\ snapshot.status = "error"
  /\ \E i \in DOMAIN visited : behaviour[visited[i]] = "throws"
  /\ ~thrown

\* C31: a write on the context of a snapshot that getSnapshot() returned or a
\* callback was handed leaves the actor's own snapshot as it is, and a later
\* send evaluates its guards and runs its actions as it does on an actor
\* whose public snapshot was never handed out.
C31_PublicContextIsACopy ==
  [][/\ call'.op = "mutate" => snapshot' = snapshot
     /\ call'.op = "send" =>
          LET r == send(Actor(snapshot, Null, subscribers, behaviour), call'.event)
          IN  /\ snapshot' = r.snapshot
              /\ executed' = r.executed
              /\ seen' = r.seen
              /\ call'.path = r.path]_vars

\* The count of the public snapshot was set to 0 while the actor's count is
\* at the limit: the guard of INC, count below the limit, still rejects.
C31_Witness ==
  /\ call.op = "send"
  /\ call.event.type = "INC"
  /\ call.path = "nomatch"
  /\ snapshot.value = "active"
  /\ snapshot.context.count = Limit
  /\ lastSnapshot # Null
  /\ lastSnapshot.context.count = 0

\* C36: when a callback sends an event during a notification pass, every
\* callback is handed the same snapshots in the same order, and the last one
\* each registered callback was handed is the snapshot the actor has when the
\* outermost send, start or stop returns.
C36_ReentrantDeliveriesInOrder ==
  call.op \in {"send", "start", "stop"} =>
    \A cb \in Live(subscribers) \cap Live(registered) :
      /\ delivered[cb] # <<>> => delivered[cb][Len(delivered[cb])] = snapshot
      /\ \A other \in Live(subscribers) \cap Live(registered) :
           delivered[other] = delivered[cb]

\* C37: an unsubscribe function removes the registration that returned it
\* and no other: a callback is registered exactly as long as one of the
\* unsubscribe functions returned for it has not been called.
C37_UnsubscribeOwnRegistration ==
  \A cb \in Callbacks :
    cb \in Live(subscribers) <=>
      \E n \in DOMAIN tickets : tickets[n].cb = cb /\ ~tickets[n].called

====
